---- MODULE Spec2Model ----
(***************************************************************************)
(* A model of the wgse_utils procedural-macro pipeline:                    *)
(*   wgse_command_interface  (meta_generate.rs)  capture_interface         *)
(*   wgse_command            (meta_collect.rs)   capture_command           *)
(*   wgse_command_trait_impl (meta_generate.rs)  generate_registry         *)
(* of the JSON/base64 file store the three phases share, and of the two    *)
(* derive macros of deref.rs.                                               *)
(*                                                                         *)
(* Text is a sequence of bytes (0..255).  Token streams are printed as     *)
(* their tokens separated by one space, the way TokenStream::to_string     *)
(* does for the token kinds used here.                                     *)
(***************************************************************************)
EXTENDS Integers, Sequences, FiniteSets, TLC

VARIABLES
    fs,         \* the file system under the build root: directory path -> directory
    last,       \* what the last macro invocation was and how it ended
    ifaceBy,    \* who wrote interface.json: "none", "capture" or "other"
    ifaceDecl,  \* the trait method the last successful capture_interface was given
    asked,      \* the commands of matching shape capture_command was invoked for
    store,      \* StoreSpec: per key, the fragment last put there
    norm        \* NormSpec: a declaration and what each normalizer application gave

vars == <<fs, last, ifaceBy, ifaceDecl, asked, store, norm>>

-----------------------------------------------------------------------------
(* Bytes and sequences *)

ToSet(s) == {s[i] : i \in 1..Len(s)}

RECURSIVE Concat(_)
Concat(ss) ==
    IF ss = <<>> THEN <<>>
    ELSE IF Len(ss) = 1 THEN ss[1]
    ELSE Concat(SubSeq(ss, 1, Len(ss) \div 2))
         \o Concat(SubSeq(ss, Len(ss) \div 2 + 1, Len(ss)))

RECURSIVE Join(_, _)
Join(ss, sep) ==
    IF ss = <<>> THEN <<>>
    ELSE IF Len(ss) = 1 THEN ss[1]
    ELSE Join(SubSeq(ss, 1, Len(ss) \div 2), sep) \o sep
         \o Join(SubSeq(ss, Len(ss) \div 2 + 1, Len(ss)), sep)

RECURSIVE SeqsUpTo(_, _)
SeqsUpTo(S, n) ==
    IF n = 0 THEN {<<>>}
    ELSE LET shorter == SeqsUpTo(S, n - 1)
         IN  shorter \cup {Append(s, x) : s \in shorter, x \in S}

IsUpper(c) == c \in 65..90
IsLower(c) == c \in 97..122
IsDigit(c) == c \in 48..57
LowerAll(w) == [i \in 1..Len(w) |-> IF IsUpper(w[i]) THEN w[i] + 32 ELSE w[i]]
UpperAll(w) == [i \in 1..Len(w) |-> IF IsLower(w[i]) THEN w[i] - 32 ELSE w[i]]

(* String::from_utf8: one-byte and two-byte sequences are decided exactly;  *)
(* the model's texts hold no lead byte of a longer sequence except 0xFF,    *)
(* which no UTF-8 text contains.                                            *)
Utf8Valid(b) ==
    \A i \in 1..Len(b) :
        \/ b[i] < 128
        \/ b[i] \in 194..223 /\ i < Len(b) /\ b[i + 1] \in 128..191
        \/ b[i] \in 128..191 /\ i > 1 /\ b[i - 1] \in 194..223

-----------------------------------------------------------------------------
(* base64::engine::general_purpose::STANDARD: the A-Za-z0-9+/ alphabet,     *)
(* canonical '=' padding on encode, and a decoder that wants the padding    *)
(* and zero trailing bits.                                                  *)

B64Char(i) ==
    IF i < 26 THEN 65 + i
    ELSE IF i < 52 THEN 97 + (i - 26)
    ELSE IF i < 62 THEN 48 + (i - 52)
    ELSE IF i = 62 THEN 43 ELSE 47

B64Index(c) ==
    IF IsUpper(c) THEN c - 65
    ELSE IF IsLower(c) THEN c - 97 + 26
    ELSE IF IsDigit(c) THEN c - 48 + 52
    ELSE IF c = 43 THEN 62
    ELSE IF c = 47 THEN 63
    ELSE -1

(* encode: every three bytes give four characters; a last group of one or  *)
(* two bytes is padded with '='                                             *)
B64Encode(b) ==
    LET ByteAt(i) == IF i <= Len(b) THEN b[i] ELSE 0
        EncodedOf(b1, b2, b3, j, have) ==
            IF j = 0 THEN B64Char(b1 \div 4)
            ELSE IF j = 1 THEN B64Char((b1 % 4) * 16 + b2 \div 16)
            ELSE IF j = 2
                 THEN (IF have < 2 THEN 61 ELSE B64Char((b2 % 16) * 4 + b3 \div 64))
            ELSE (IF have < 3 THEN 61 ELSE B64Char(b3 % 64))
        EncodedIn(g, j) ==
            EncodedOf(ByteAt(3 * g + 1), ByteAt(3 * g + 2), ByteAt(3 * g + 3),
                      j, Len(b) - 3 * g)
    IN  [k \in 1..(4 * ((Len(b) + 2) \div 3)) |-> EncodedIn((k - 1) \div 4, (k - 1) % 4)]

(* decode: whole groups of four; '=' only as the last one or two characters *)
(* of the text, and then the bits that are cut off must be zero             *)
B64Decode(s) ==
    LET DecodedOf(a, b, c, d, j) ==
            IF j = 0 THEN a * 4 + b \div 16
            ELSE IF j = 1 THEN (b % 16) * 16 + c \div 4
            ELSE (c % 4) * 64 + d
        DecodedIn(g, j) ==
            DecodedOf(B64Index(s[4 * g + 1]), B64Index(s[4 * g + 2]),
                      B64Index(s[4 * g + 3]), B64Index(s[4 * g + 4]), j)
        Padded(pad, n) ==
            IF /\ Len(s) % 4 = 0
               /\ \A i \in 1..n : B64Index(s[i]) >= 0
               /\ pad = 2 => B64Index(s[n]) % 16 = 0
               /\ pad = 1 => B64Index(s[n]) % 4 = 0
            THEN [ok |-> TRUE,
                  bytes |-> [k \in 1..(3 * (Len(s) \div 4) - pad) |->
                                DecodedIn((k - 1) \div 3, (k - 1) % 3)]]
            ELSE [ok |-> FALSE, bytes |-> <<>>]
        Pads(pad) == Padded(pad, Len(s) - pad)
    IN  Pads(IF Len(s) >= 2 /\ s[Len(s)] = 61 /\ s[Len(s) - 1] = 61 THEN 2
             ELSE IF Len(s) >= 1 /\ s[Len(s)] = 61 THEN 1
             ELSE 0)

-----------------------------------------------------------------------------
(* convert_case: a name is split into words at '_', '-', ' ' (dropped),     *)
(* between a lowercase and an uppercase letter, and before the last capital *)
(* of an acronym; the words are then re-cased and joined.                   *)

RECURSIVE WordsFrom(_, _, _)
WordsFrom(s, i, cur) ==
    LET BreakBefore ==
            /\ i > 1
            /\ \/ IsLower(s[i - 1]) /\ IsUpper(s[i])
               \/ IsUpper(s[i - 1]) /\ IsUpper(s[i]) /\ i < Len(s) /\ IsLower(s[i + 1])
    IN  IF i > Len(s) THEN (IF cur = <<>> THEN <<>> ELSE <<cur>>)
        ELSE IF s[i] \in {95, 45, 32}
             THEN (IF cur = <<>> THEN <<>> ELSE <<cur>>) \o WordsFrom(s, i + 1, <<>>)
        ELSE IF cur # <<>> /\ BreakBefore
             THEN <<cur>> \o WordsFrom(s, i + 1, <<s[i]>>)
        ELSE WordsFrom(s, i + 1, Append(cur, s[i]))

Words(s) == WordsFrom(s, 1, <<>>)

Snake(s) ==
    LET Joined(w) == Join([i \in 1..Len(w) |-> LowerAll(w[i])], <<95>>)
    IN  Joined(Words(s))

UpperSnake(s) ==
    LET Joined(w) == Join([i \in 1..Len(w) |-> UpperAll(w[i])], <<95>>)
    IN  Joined(Words(s))

UpperCamel(s) ==
    LET Capital(w) == UpperAll(SubSeq(w, 1, 1)) \o LowerAll(SubSeq(w, 2, Len(w)))
        Joined(w) == Concat([i \in 1..Len(w) |-> Capital(w[i])])
    IN  Joined(Words(s))

-----------------------------------------------------------------------------
(* serde_json::Value, as far as the store uses it: a document is an object  *)
(* whose members are strings, unsigned integers or null, or a bare scalar.  *)
(* Value::to_string writes compact JSON with the keys in sorted order;      *)
(* serde_json::from_str reads it back.                                      *)

JNull == [t |-> "null", s |-> <<>>, n |-> 0, m |-> <<>>]
JStr(b) == [t |-> "str", s |-> b, n |-> 0, m |-> <<>>]
JNum(k) == [t |-> "num", s |-> <<>>, n |-> k, m |-> <<>>]
JObj(members) == [t |-> "obj", s |-> <<>>, n |-> 0, m |-> members]

(* Index: json_value[key]; a missing key and a non-object both give Null *)
JIndex(doc, key) ==
    IF doc.t = "obj" /\ key \in DOMAIN doc.m THEN doc.m[key] ELSE JNull

(* IndexMut: json_value[key] = v; inserts into an object, turns Null into   *)
(* an object, and panics on any other value (callers guard against that)    *)
JAssign(doc, key, v) ==
    JObj([k \in (DOMAIN doc.m) \cup {key} |-> IF k = key THEN v ELSE doc.m[k]])

RECURSIVE LexLess(_, _)
LexLess(a, b) ==
    IF b = <<>> THEN FALSE
    ELSE IF a = <<>> THEN TRUE
    ELSE IF a[1] # b[1] THEN a[1] < b[1]
    ELSE LexLess(Tail(a), Tail(b))

RECURSIVE SortedKeys(_)
SortedKeys(K) ==
    IF K = {} THEN <<>>
    ELSE LET Rest(least) == <<least>> \o SortedKeys(K \ {least})
         IN  Rest(CHOOSE k \in K : \A o \in K \ {k} : LexLess(k, o))

JEscapeByte(c) ==
    LET HexDigit(d) == IF d < 10 THEN 48 + d ELSE 97 + (d - 10)
    IN  IF c = 34 THEN <<92, 34>>
        ELSE IF c = 92 THEN <<92, 92>>
        ELSE IF c = 10 THEN <<92, 110>>
        ELSE IF c = 13 THEN <<92, 114>>
        ELSE IF c = 9 THEN <<92, 116>>
        ELSE IF c = 8 THEN <<92, 98>>
        ELSE IF c = 12 THEN <<92, 102>>
        ELSE IF c < 32 THEN <<92, 117, 48, 48, HexDigit(c \div 16), HexDigit(c % 16)>>
        ELSE <<c>>

RECURSIVE Digits(_)
Digits(k) == IF k < 10 THEN <<48 + k>> ELSE Digits(k \div 10) \o <<48 + (k % 10)>>

(* Value::to_string *)
JWrite(doc) ==
    LET WriteString(b) ==
            <<34>> \o Concat([i \in 1..Len(b) |-> JEscapeByte(b[i])]) \o <<34>>
        WriteScalar(v) ==
            IF v.t = "str" THEN WriteString(v.s)
            ELSE IF v.t = "num" THEN Digits(v.n)
            ELSE <<110, 117, 108, 108>>
        WriteMembers(keys) ==
            <<123>>
            \o Join([i \in 1..Len(keys) |->
                        WriteString(keys[i]) \o <<58>> \o WriteScalar(doc.m[keys[i]])],
                    <<44>>)
            \o <<125>>
    IN  IF doc.t = "obj" THEN WriteMembers(SortedKeys(DOMAIN doc.m))
        ELSE WriteScalar(doc)

JFail == [ok |-> FALSE, v |-> JNull, next |-> 0]

RECURSIVE JSkip(_, _)
JSkip(s, i) == IF i <= Len(s) /\ s[i] \in {32, 10, 13, 9} THEN JSkip(s, i + 1) ELSE i

(* the index of the quote that closes the string whose body starts at i, or *)
(* 0 when the text ends first; a byte of the body is escaped when an odd    *)
(* run of backslashes precedes it                                           *)
JStringEnd(s, i) ==
    LET Escaped(j) ==
            \E k \in i..(j - 1) :
                /\ \A m \in k..(j - 1) : s[m] = 92
                /\ k = i \/ s[k - 1] # 92
                /\ (j - k) % 2 = 1
        First(closers) ==
            IF closers = {} THEN 0
            ELSE CHOOSE j \in closers : \A m \in closers : j <= m
    IN  First({j \in i..Len(s) : s[j] = 34 /\ ~Escaped(j)})

(* the byte the escape at b[i] stands for (-1: no valid escape) *)
JEscapeValue(b, i) ==
    LET HexValue(c) ==
            IF IsDigit(c) THEN c - 48
            ELSE IF c \in 97..102 THEN c - 97 + 10
            ELSE IF c \in 65..70 THEN c - 65 + 10
            ELSE -1
    IN  IF i + 1 > Len(b) THEN -1
        ELSE IF b[i + 1] \in {34, 92, 47} THEN b[i + 1]
        ELSE IF b[i + 1] = 110 THEN 10
        ELSE IF b[i + 1] = 114 THEN 13
        ELSE IF b[i + 1] = 116 THEN 9
        ELSE IF b[i + 1] = 98 THEN 8
        ELSE IF b[i + 1] = 102 THEN 12
        ELSE IF b[i + 1] = 117 /\ i + 5 <= Len(b)
                /\ b[i + 2] = 48 /\ b[i + 3] = 48
                /\ HexValue(b[i + 4]) \in 0..7 /\ HexValue(b[i + 5]) >= 0
             THEN HexValue(b[i + 4]) * 16 + HexValue(b[i + 5])
        ELSE -1

RECURSIVE JUnescape(_, _, _)
JUnescape(b, i, acc) ==
    IF i > Len(b) THEN [ok |-> TRUE, s |-> acc]
    ELSE IF b[i] # 92 THEN JUnescape(b, i + 1, Append(acc, b[i]))
    ELSE IF JEscapeValue(b, i) < 0 THEN [ok |-> FALSE, s |-> <<>>]
    ELSE JUnescape(b, i + (IF b[i + 1] = 117 THEN 6 ELSE 2),
                   Append(acc, JEscapeValue(b, i)))

(* a string whose body starts at i: no raw control character, escapes undone *)
JStringBody(s, i) ==
    LET Undone(undone, close) ==
            IF ~undone.ok THEN JFail
            ELSE [ok |-> TRUE, v |-> JStr(undone.s), next |-> close + 1]
        Of(body, close) ==
            IF \E k \in 1..Len(body) : body[k] < 32 THEN JFail
            ELSE IF \A k \in 1..Len(body) : body[k] # 92
                 THEN Undone([ok |-> TRUE, s |-> body], close)
            ELSE Undone(JUnescape(body, 1, <<>>), close)
        Closed(close) ==
            IF close = 0 THEN JFail ELSE Of(SubSeq(s, i, close - 1), close)
    IN  Closed(JStringEnd(s, i))

RECURSIVE JNumberBody(_, _, _)
JNumberBody(s, i, acc) ==
    IF i <= Len(s) /\ IsDigit(s[i])
    THEN JNumberBody(s, i + 1, acc * 10 + (s[i] - 48))
    ELSE [ok |-> TRUE, v |-> JNum(acc), next |-> i]

JParseScalar(s, i) ==
    IF i > Len(s) THEN JFail
    ELSE IF s[i] = 34 THEN JStringBody(s, i + 1)
    ELSE IF s[i] = 48 THEN
        IF i + 1 <= Len(s) /\ IsDigit(s[i + 1]) THEN JFail
        ELSE [ok |-> TRUE, v |-> JNum(0), next |-> i + 1]
    ELSE IF IsDigit(s[i]) THEN JNumberBody(s, i, 0)
    ELSE IF i + 3 <= Len(s) /\ SubSeq(s, i, i + 3) = <<110, 117, 108, 108>>
         THEN [ok |-> TRUE, v |-> JNull, next |-> i + 4]
    ELSE JFail

(* the members after position i, up to and including the closing brace; a   *)
(* repeated key keeps its last value                                         *)
RECURSIVE JMembers(_, _, _)
JMembers(s, i, acc) ==
    LET End(key, val, e) ==
            IF ~val.ok \/ e > Len(s) THEN JFail
            ELSE IF s[e] = 125
                 THEN [ok |-> TRUE, v |-> JAssign(acc, key.v.s, val.v), next |-> e + 1]
            ELSE IF s[e] = 44 THEN JMembers(s, e + 1, JAssign(acc, key.v.s, val.v))
            ELSE JFail
        Value(key, val) == End(key, val, JSkip(s, val.next))
        Colon(key, c) ==
            IF ~key.ok \/ c > Len(s) THEN JFail
            ELSE IF s[c] # 58 THEN JFail
            ELSE Value(key, JParseScalar(s, JSkip(s, c + 1)))
        Key(key) == Colon(key, JSkip(s, key.next))
        At(k0) ==
            IF k0 > Len(s) THEN JFail
            ELSE IF s[k0] # 34 THEN JFail
            ELSE Key(JStringBody(s, k0 + 1))
    IN  At(JSkip(s, i))

(* serde_json::from_str: one value, then nothing but white space *)
JParse(s) ==
    LET ObjectAt(i, j) ==
            IF j <= Len(s) /\ s[j] = 125
            THEN [ok |-> TRUE, v |-> JObj(<<>>), next |-> j + 1]
            ELSE JMembers(s, i + 1, JObj(<<>>))
        ValueAt(i) ==
            IF i <= Len(s) /\ s[i] = 123 THEN ObjectAt(i, JSkip(s, i + 1))
            ELSE JParseScalar(s, i)
        Whole(r) == IF r.ok /\ JSkip(s, r.next) = Len(s) + 1 THEN r ELSE JFail
    IN  Whole(ValueAt(JSkip(s, 1)))

-----------------------------------------------------------------------------
(* Token streams.  A token is named by its spelling; TokenBytes gives the   *)
(* bytes TokenStream::to_string writes for it.                              *)

Tokens ==
    {"fn", "pub", "self", "mut", "&", "(", ")", ",", ":", "->", ";",
     "{", "}", "#", "[", "]", ".", "_", "f", "g", "a", "b", "execute",
     "func", "sig", "clone", "inline", "T", "U", "R", "0", "1"}

IdentTokens == {"f", "g", "a", "b", "execute", "func", "sig", "clone", "inline",
                "T", "U", "R"}

TokenBytes(t) ==
    CASE t = "fn" -> <<102, 110>>
      [] t = "pub" -> <<112, 117, 98>>
      [] t = "self" -> <<115, 101, 108, 102>>
      [] t = "mut" -> <<109, 117, 116>>
      [] t = "&" -> <<38>>
      [] t = "(" -> <<40>>
      [] t = ")" -> <<41>>
      [] t = "," -> <<44>>
      [] t = ":" -> <<58>>
      [] t = "->" -> <<45, 62>>
      [] t = ";" -> <<59>>
      [] t = "{" -> <<123>>
      [] t = "}" -> <<125>>
      [] t = "#" -> <<35>>
      [] t = "[" -> <<91>>
      [] t = "]" -> <<93>>
      [] t = "." -> <<46>>
      [] t = "_" -> <<95>>
      [] t = "f" -> <<102>>
      [] t = "g" -> <<103>>
      [] t = "a" -> <<97>>
      [] t = "b" -> <<98>>
      [] t = "execute" -> <<101, 120, 101, 99, 117, 116, 101>>
      [] t = "func" -> <<102, 117, 110, 99>>
      [] t = "sig" -> <<115, 105, 103>>
      [] t = "clone" -> <<99, 108, 111, 110, 101>>
      [] t = "inline" -> <<105, 110, 108, 105, 110, 101>>
      [] t = "T" -> <<84>>
      [] t = "U" -> <<85>>
      [] t = "R" -> <<82>>
      [] t = "0" -> <<48>>
      [] t = "1" -> <<49>>

ToText(tokens) == Join([i \in 1..Len(tokens) |-> TokenBytes(tokens[i])], <<32>>)

(* the lexer: the words between the spaces, each looked up; an unknown word *)
(* is "?".  The k-th word lies after the (k-1)-th space and before the k-th *)
Lex(text) ==
    LET Spaces == {i \in 1..Len(text) : text[i] = 32}
        SpaceAt(k) ==
            IF k = 0 THEN 0
            ELSE IF k > Cardinality(Spaces) THEN Len(text) + 1
            ELSE CHOOSE i \in Spaces : Cardinality({j \in Spaces : j < i}) = k - 1
        Word(k) == SubSeq(text, SpaceAt(k - 1) + 1, SpaceAt(k) - 1)
        TokenOf(word) ==
            IF \E t \in Tokens : TokenBytes(t) = word
            THEN CHOOSE t \in Tokens : TokenBytes(t) = word
            ELSE "?"
    IN  IF text = <<>> THEN <<>>
        ELSE [k \in 1..(Cardinality(Spaces) + 1) |-> TokenOf(Word(k))]

-----------------------------------------------------------------------------
(* syn items.  ItemFn and TraitItemFn share one record: attrs, vis (always  *)
(* "inherited" in a trait), the signature's ident, inputs and output ("" is *)
(* no return type), and the block (absent for a trait method without a      *)
(* default body).                                                           *)

Receiver == [kind |-> "receiver", pat |-> "none", name |-> "self", ty |-> ""]
PatIdent(n, t) == [kind |-> "typed", pat |-> "ident", name |-> n, ty |-> t]
PatWild(t) == [kind |-> "typed", pat |-> "wild", name |-> "_", ty |-> t]

NoBlock == [present |-> FALSE, stmts |-> <<>>]
Block(stmts) == [present |-> TRUE, stmts |-> stmts]

Fn(attrs, vis, ident, inputs, output, block) ==
    [attrs |-> attrs, vis |-> vis, ident |-> ident, inputs |-> inputs,
     output |-> output, block |-> block]

AttrTokens(attrs) == Concat([i \in 1..Len(attrs) |-> <<"#", "[", attrs[i], "]">>])

(* ToTokens for Signature *)
SigTokens(f) ==
    LET ArgTokens(arg) ==
            IF arg.kind = "receiver" THEN <<"&", "self">>
            ELSE <<arg.name, ":", arg.ty>>
    IN  <<"fn", f.ident, "(">>
        \o Join([i \in 1..Len(f.inputs) |-> ArgTokens(f.inputs[i])], <<",">>)
        \o <<")">>
        \o (IF f.output = "" THEN <<>> ELSE <<"->", f.output>>)

BlockTokens(f) ==
    IF f.block.present THEN <<"{">> \o f.block.stmts \o <<"}">> ELSE <<";">>

(* quote!{ #ast }: ToTokens for ItemFn and for TraitItemFn *)
ItemFnTokens(f) ==
    AttrTokens(f.attrs) \o (IF f.vis = "pub" THEN <<"pub">> ELSE <<>>)
    \o SigTokens(f) \o BlockTokens(f)

TraitItemFnTokens(f) == AttrTokens(f.attrs) \o SigTokens(f) \o BlockTokens(f)

-----------------------------------------------------------------------------
(* syn::parse_str::<ItemFn>: attributes, an optional `pub`, `fn`, a name    *)
(* that is an identifier (`_` is none), the arguments with a receiver       *)
(* allowed in first place only, an optional return type, and a block.       *)

DummyFn == Fn(<<>>, "inherited", "_", <<>>, "", NoBlock)
ParseFail == [ok |-> FALSE, fn |-> DummyFn]

At(t, i) == IF i \in 1..Len(t) THEN t[i] ELSE "<eof>"

RECURSIVE ParseAttrs(_, _, _)
ParseAttrs(t, i, acc) ==
    IF At(t, i) # "#" THEN [ok |-> TRUE, attrs |-> acc, next |-> i]
    ELSE IF At(t, i + 1) = "[" /\ At(t, i + 2) \in IdentTokens /\ At(t, i + 3) = "]"
         THEN ParseAttrs(t, i + 4, Append(acc, t[i + 2]))
    ELSE [ok |-> FALSE, attrs |-> <<>>, next |-> i]

ParseArg(t, i, first) ==
    IF At(t, i) = "&" /\ At(t, i + 1) = "self" /\ first
    THEN [ok |-> TRUE, arg |-> Receiver, next |-> i + 2]
    ELSE IF At(t, i + 1) = ":" /\ At(t, i + 2) \in IdentTokens
            /\ At(t, i) \in IdentTokens \cup {"_"}
    THEN [ok |-> TRUE,
          arg |-> IF t[i] = "_" THEN PatWild(t[i + 2]) ELSE PatIdent(t[i], t[i + 2]),
          next |-> i + 3]
    ELSE [ok |-> FALSE, arg |-> Receiver, next |-> i]

(* the arguments from position i up to and including the closing paren *)
RECURSIVE ParseArgs(_, _, _)
ParseArgs(t, i, acc) ==
    LET After(a) ==
            IF ~a.ok THEN [ok |-> FALSE, args |-> <<>>, next |-> i]
            ELSE IF At(t, a.next) = ","
                 THEN ParseArgs(t, a.next + 1, Append(acc, a.arg))
            ELSE IF At(t, a.next) = ")"
                 THEN [ok |-> TRUE, args |-> Append(acc, a.arg), next |-> a.next + 1]
            ELSE [ok |-> FALSE, args |-> <<>>, next |-> i]
    IN  IF At(t, i) = ")" THEN [ok |-> TRUE, args |-> acc, next |-> i + 1]
        ELSE After(ParseArg(t, i, acc = <<>>))

(* parse_str::<ItemFn> on the printed text; the block runs from its brace   *)
(* to the end of the text                                                   *)
ParseItemFn(text) ==
    LET ParseBlock(t, attrs, vis, ident, args, output, b) ==
            IF /\ At(t, b) = "{"
               /\ Len(t) > b
               /\ t[Len(t)] = "}"
               /\ \A k \in (b + 1)..(Len(t) - 1) : t[k] \notin {"{", "}", "?"}
            THEN [ok |-> TRUE,
                  fn |-> Fn(attrs, vis, ident, args, output,
                            Block(SubSeq(t, b + 1, Len(t) - 1)))]
            ELSE ParseFail
        ParseOutput(t, attrs, vis, ident, args) ==
            IF ~args.ok THEN ParseFail
            ELSE IF At(t, args.next) # "->"
                 THEN ParseBlock(t, attrs, vis, ident, args.args, "", args.next)
            ELSE IF At(t, args.next + 1) \in IdentTokens
                 THEN ParseBlock(t, attrs, vis, ident, args.args, t[args.next + 1],
                                 args.next + 2)
            ELSE ParseFail
        ParseSig(t, attrs, vis, v) ==
            IF At(t, v) = "fn" /\ At(t, v + 1) \in IdentTokens /\ At(t, v + 2) = "("
            THEN ParseOutput(t, attrs, vis, t[v + 1], ParseArgs(t, v + 3, <<>>))
            ELSE ParseFail
        ParseVis(t, at) ==
            IF ~at.ok THEN ParseFail
            ELSE IF At(t, at.next) = "pub" THEN ParseSig(t, at.attrs, "pub", at.next + 1)
            ELSE ParseSig(t, at.attrs, "inherited", at.next)
        ParseTokens(t) == ParseVis(t, ParseAttrs(t, 1, <<>>))
    IN  ParseTokens(Lex(text))

(* syn::parse_str::<Ident>: a non-empty word of letters, digits and '_'     *)
(* that does not start with a digit and is neither `_` nor a keyword        *)
IdentOk(b) ==
    /\ b # <<>>
    /\ b # <<95>>
    /\ ~IsDigit(b[1])
    /\ \A i \in 1..Len(b) : IsUpper(b[i]) \/ IsLower(b[i]) \/ IsDigit(b[i]) \/ b[i] = 95
    /\ b \notin {<<83, 101, 108, 102>>, <<115, 101, 108, 102>>, <<102, 110>>}

-----------------------------------------------------------------------------
(* The two normalizers *)

(* every Pat::Ident of a typed argument is renamed `_`; a receiver and any  *)
(* other pattern are left alone                                             *)
EraseAll(inputs) ==
    LET ErasePat(arg) ==
            IF arg.kind = "typed" /\ arg.pat = "ident" THEN [arg EXCEPT !.name = "_"]
            ELSE arg
    IN  [i \in 1..Len(inputs) |-> ErasePat(inputs[i])]

InsertReceiver(inputs) == <<Receiver>> \o inputs

(* meta_collect.rs: preprocess_function_ast *)
preprocess_function_ast(ast) ==
    [ast EXCEPT !.attrs = <<>>,
                !.vis = "inherited",
                !.ident = "_",
                !.inputs = EraseAll(InsertReceiver(ast.inputs))]

(* a variant of the interface normalizer that injects a receiver, as the    *)
(* command normalizer does                                                  *)
normalize_interface_injecting(func) ==
    [func EXCEPT !.attrs = <<>>,
                 !.ident = "_",
                 !.inputs = EraseAll(InsertReceiver(func.inputs))]

(* meta_generate.rs: what wgse_command_interface_impl does to the parsed    *)
(* trait method before it prints it                                         *)
normalize_interface(func) ==
    [func EXCEPT !.attrs = <<>>,
                 !.ident = "_",
                 !.inputs = EraseAll(func.inputs)]

(* meta_collect.rs line 142: quote!{ #(func.sig.clone()) }.  A `#(` that no *)
(* `*` closes is no interpolation: quote! emits the tokens as written, so   *)
(* the text is the same whatever the function is.                           *)
func_signature(ast) ==
    ToText(<<"#", "(", "func", ".", "sig", ".", "clone", "(", ")", ")">>)

-----------------------------------------------------------------------------
(* The file system under env::current_dir().  A directory is a list of      *)
(* entries in the order a walk meets them; names are unique within it.  An  *)
(* entry the walk cannot read (an unreadable subdirectory, a broken link)   *)
(* has walk = "err"; isFile tells files from directories; perm is whether   *)
(* the file can be opened.                                                  *)

AutogenDir == "src/.autogen"
CollectDir == "src/.autogen/wgse_command"
GenerateDir == "src/.autogen/wgse_commands"
Dirs == {AutogenDir, CollectDir, GenerateDir}

KeyRaw == <<114, 97, 119>>
KeyName == <<110, 97, 109, 101>>
KeyCode == <<99, 111, 100, 101>>
InterfaceFile == <<105, 110, 116, 101, 114, 102, 97, 99, 101, 46, 106, 115, 111, 110>>
FileName(stem) == stem \o <<46, 106, 115, 111, 110>>

NoDir == [exists |-> FALSE, entries |-> <<>>]
Dir(entries) == [exists |-> TRUE, entries |-> entries]
FileEntry(name, bytes) ==
    [name |-> name, walk |-> "ok", isFile |-> TRUE, perm |-> TRUE, bytes |-> bytes]

Find(entries, name) ==
    IF \E i \in 1..Len(entries) : entries[i].name = name
    THEN CHOOSE i \in 1..Len(entries) : entries[i].name = name
    ELSE 0

InsertAt(seq, pos, x) == SubSeq(seq, 1, pos - 1) \o <<x>> \o SubSeq(seq, pos, Len(seq))

Got(doc) == [outcome |-> "ok", err |-> "", doc |-> doc]
GetErr(kind) == [outcome |-> "err", err |-> kind, doc |-> JNull]
GetPanic == [outcome |-> "panic", err |-> "unwrap on None", doc |-> JNull]

(* File::open(path)? then read_to_string(..)? *)
ReadToString(fsys, dir, name) ==
    LET ReadFail == [ok |-> FALSE, bytes |-> <<>>]
        ReadEntry(e) ==
            IF e.walk # "ok" \/ ~e.isFile \/ ~e.perm \/ ~Utf8Valid(e.bytes) THEN ReadFail
            ELSE [ok |-> TRUE, bytes |-> e.bytes]
        ReadAt(d, i) == IF ~d.exists \/ i = 0 THEN ReadFail ELSE ReadEntry(d.entries[i])
    IN  ReadAt(fsys[dir], Find(fsys[dir].entries, name))

(* a variant that opens an existing file for append instead of truncating it *)
CreateAtAppending(fsys, dir, name, bytes, pos, es, i) ==
    IF ~fsys[dir].exists THEN [ok |-> FALSE, fs |-> fsys]
    ELSE IF i = 0
         THEN [ok |-> TRUE,
               fs |-> [fsys EXCEPT ![dir].entries =
                          InsertAt(es, pos, FileEntry(name, bytes))]]
    ELSE IF es[i].walk # "ok" \/ ~es[i].isFile \/ ~es[i].perm
         THEN [ok |-> FALSE, fs |-> fsys]
    ELSE [ok |-> TRUE, fs |-> [fsys EXCEPT ![dir].entries[i].bytes = @ \o bytes]]

CreateAt(fsys, dir, name, bytes, pos, es, i) ==
    IF ~fsys[dir].exists THEN [ok |-> FALSE, fs |-> fsys]
    ELSE IF i = 0
         THEN [ok |-> TRUE,
               fs |-> [fsys EXCEPT ![dir].entries =
                          InsertAt(es, pos, FileEntry(name, bytes))]]
    ELSE IF es[i].walk # "ok" \/ ~es[i].isFile \/ ~es[i].perm
         THEN [ok |-> FALSE, fs |-> fsys]
    ELSE [ok |-> TRUE, fs |-> [fsys EXCEPT ![dir].entries[i].bytes = bytes]]

(* File::create(path)? then write_all(..)?: creates the file, at a place in *)
(* the directory order the file system chooses (pos), or truncates it       *)
CreateAndWrite(fsys, dir, name, bytes, pos) ==
    CreateAt(fsys, dir, name, bytes, pos, fsys[dir].entries,
             Find(fsys[dir].entries, name))

(* meta_collect.rs: get_json_payload *)
get_json_payload(fsys, dir, name) ==
    LET Decoded(doc, decoded) ==
            IF ~decoded.ok THEN GetErr("base64::DecodeError")
            ELSE IF ~Utf8Valid(decoded.bytes) THEN GetErr("FromUtf8Error")
            ELSE Got(JAssign(doc, KeyRaw, JStr(decoded.bytes)))
        WithRaw(doc, raw) ==
            IF raw.t # "str" THEN GetPanic ELSE Decoded(doc, B64Decode(raw.s))
        Parsed(parsed) ==
            IF ~parsed.ok THEN GetErr("serde_json::Error")
            ELSE WithRaw(parsed.v, JIndex(parsed.v, KeyRaw))
        Read(content) ==
            IF ~content.ok THEN GetErr("io::Error") ELSE Parsed(JParse(content.bytes))
    IN  Read(ReadToString(fsys, dir, name))

(* a variant that writes the raw text as it is, without encoding it *)
set_json_payload_unencoded(fsys, dir, name, json_value, pos) ==
    LET Written(written) ==
            IF ~written.ok THEN [outcome |-> "err", err |-> "io::Error", fs |-> fsys]
            ELSE [outcome |-> "ok", err |-> "", fs |-> written.fs]
        Encode(raw) ==
            IF raw.t # "str"
            THEN [outcome |-> "panic", err |-> "unwrap on None", fs |-> fsys]
            ELSE Written(CreateAndWrite(fsys, dir, name, JWrite(json_value), pos))
    IN  Encode(JIndex(json_value, KeyRaw))

(* meta_collect.rs: set_json_payload *)
set_json_payload(fsys, dir, name, json_value, pos) ==
    LET Written(written) ==
            IF ~written.ok THEN [outcome |-> "err", err |-> "io::Error", fs |-> fsys]
            ELSE [outcome |-> "ok", err |-> "", fs |-> written.fs]
        Encode(raw) ==
            IF raw.t # "str"
            THEN [outcome |-> "panic", err |-> "unwrap on None", fs |-> fsys]
            ELSE Written(CreateAndWrite(fsys, dir, name,
                             JWrite(JAssign(json_value, KeyRaw, JStr(B64Encode(raw.s)))),
                             pos))
    IN  Encode(JIndex(json_value, KeyRaw))

(* meta_generate.rs: its own copies of the two functions *)
generate_get_json_payload(fsys, dir, name) ==
    LET Decoded(doc, decoded) ==
            IF ~decoded.ok THEN GetErr("base64::DecodeError")
            ELSE IF ~Utf8Valid(decoded.bytes) THEN GetErr("FromUtf8Error")
            ELSE Got(JAssign(doc, KeyRaw, JStr(decoded.bytes)))
        WithRaw(doc, raw) ==
            IF raw.t # "str" THEN GetPanic ELSE Decoded(doc, B64Decode(raw.s))
        Parsed(parsed) ==
            IF ~parsed.ok THEN GetErr("serde_json::Error")
            ELSE WithRaw(parsed.v, JIndex(parsed.v, KeyRaw))
        Read(content) ==
            IF ~content.ok THEN GetErr("io::Error") ELSE Parsed(JParse(content.bytes))
    IN  Read(ReadToString(fsys, dir, name))

generate_set_json_payload(fsys, dir, name, json_value, pos) ==
    LET Written(written) ==
            IF ~written.ok THEN [outcome |-> "err", err |-> "io::Error", fs |-> fsys]
            ELSE [outcome |-> "ok", err |-> "", fs |-> written.fs]
        Encode(raw) ==
            IF raw.t # "str"
            THEN [outcome |-> "panic", err |-> "unwrap on None", fs |-> fsys]
            ELSE Written(CreateAndWrite(fsys, dir, name,
                             JWrite(JAssign(json_value, KeyRaw, JStr(B64Encode(raw.s)))),
                             pos))
    IN  Encode(JIndex(json_value, KeyRaw))

-----------------------------------------------------------------------------
(* The three phases.  Each is an operator from the file system and the      *)
(* macro's input to how the call ends and the file system it leaves.        *)

NopeMarker == <<78, 111, 112, 101>>

NoOut == [items |-> <<>>, variants |-> <<>>, enum |-> <<>>, dispatch |-> "",
          default |-> <<>>]

Ended(outcome, err, msg, expect, found, fsys, out) ==
    [outcome |-> outcome, err |-> err, msg |-> msg, expect |-> expect,
     found |-> found, fs |-> fsys, out |-> out]

Ok(fsys, out) == Ended("ok", "", "", <<>>, <<>>, fsys, out)
Failed(kind, fsys) == Ended("err", kind, "", <<>>, <<>>, fsys, NoOut)
Panicked(fsys) == Ended("panic", "unwrap on None", "", <<>>, <<>>, fsys, NoOut)

PutEnded(put, fsys) ==
    IF put.outcome = "ok" THEN Ok(put.fs, NoOut)
    ELSE IF put.outcome = "panic" THEN Panicked(fsys)
    ELSE Failed(put.err, fsys)

RawPayload(text) == JObj([k \in {KeyRaw} |-> JStr(text)])

(* meta_generate.rs: wgse_command_interface_impl *)
wgse_command_interface_impl(fsys, input, pos) ==
    PutEnded(generate_set_json_payload(
                 fsys, AutogenDir, InterfaceFile,
                 RawPayload(ToText(TraitItemFnTokens(normalize_interface(input)))),
                 pos),
             fsys)

(* meta_collect.rs: check_function_interface *)
check_function_interface(fsys, ast) ==
    LET Compare(interface_signature, found) ==
            IF interface_signature = found THEN Ok(fsys, NoOut)
            ELSE Ended("err", "InvalidInterfaceError", "inconsistent interface signature",
                       interface_signature, found, fsys, NoOut)
        Signature(raw) ==
            IF raw.t # "str"
            THEN Ended("err", "InvalidInterfaceError", "no interface signature found",
                       <<>>, <<>>, fsys, NoOut)
            ELSE Compare(raw.s, func_signature(preprocess_function_ast(ast)))
        Loaded(interface_payload) ==
            IF interface_payload.outcome = "err" THEN Failed(interface_payload.err, fsys)
            ELSE IF interface_payload.outcome = "panic" THEN Panicked(fsys)
            ELSE Signature(JIndex(interface_payload.doc, KeyRaw))
    IN  Loaded(get_json_payload(fsys, AutogenDir, InterfaceFile))

CommandFile(name) == FileName(Snake(name))

FragmentPayload(name, code, text) ==
    JObj([k \in {KeyName, KeyCode, KeyRaw} |->
             IF k = KeyName THEN JStr(name)
             ELSE IF k = KeyCode THEN JNum(code)
             ELSE JStr(text)])

(* a variant that gives the clone made for the comparison: receiver in      *)
(* front, names and attributes erased                                       *)
WithReceiverOnClone(ast) == preprocess_function_ast(ast)

WithReceiver(ast) == [ast EXCEPT !.inputs = InsertReceiver(ast.inputs)]

(* a variant that writes the fragment first and checks the interface after *)
wgse_command_impl_writing_first(fsys, code, name, ast, pos) ==
    LET Put(put) ==
            IF put.outcome # "ok" THEN PutEnded(put, fsys)
            ELSE [check_function_interface(fsys, ast) EXCEPT !.fs = put.fs]
    IN  Put(set_json_payload(fsys, CollectDir, CommandFile(name),
                             FragmentPayload(name, code,
                                             ToText(ItemFnTokens(WithReceiver(ast)))),
                             pos))

(* meta_collect.rs: wgse_command_impl *)
wgse_command_impl(fsys, code, name, ast, pos) ==
    LET Checked(checked) ==
            IF checked.outcome # "ok" THEN checked
            ELSE PutEnded(set_json_payload(
                              fsys, CollectDir, CommandFile(name),
                              FragmentPayload(name, code,
                                              ToText(ItemFnTokens(WithReceiver(ast)))),
                              pos),
                          fsys)
    IN  Checked(check_function_interface(fsys, ast))

(* a token of the annotation's argument list: a literal of some kind, a     *)
(* comma, or a token that is no literal (an identifier)                     *)
ArgToken(kind, n, s) == [kind |-> kind, n |-> n, s |-> s]

(* a variant that narrows the code to a u8 by a cast instead of parsing it  *)
(* as one                                                                   *)
MetaCollectArgs_casting(args) ==
    LET ArgsErr(msg) == [ok |-> FALSE, msg |-> msg, code |-> 0, name |-> <<>>]
        IsLit(t) == t.kind \in {"int", "str", "float", "bool"}
        Fits(i) == IF i % 2 = 1 THEN IsLit(args[i]) ELSE args[i].kind = "comma"
        Bad == {i \in 1..Len(args) : ~Fits(i)}
        FirstBad == CHOOSE i \in Bad : \A j \in Bad : i <= j
        Lits == SelectSeq(args, IsLit)
        Pair(code, name) ==
            IF code.kind = "int" /\ name.kind = "str"
            THEN [ok |-> TRUE, msg |-> "", code |-> code.n % 256, name |-> name.s]
            ELSE ArgsErr("expect #[wgse_command(<code: u8>, <name: str>)]")
    IN  IF Bad # {}
        THEN ArgsErr(IF FirstBad % 2 = 1 THEN "expected literal" ELSE "expected comma")
        ELSE IF Len(Lits) = 2 THEN Pair(Lits[1], Lits[2])
        ELSE ArgsErr("expect #[wgse_command(<code: u8>, <name: str>)]")

(* meta_collect.rs: impl Parse for MetaCollectArgs.                         *)
(* Punctuated::<Lit, Token![,]>::parse_terminated reads literal, comma,     *)
(* literal, ... until the input ends, a trailing comma allowed, and fails   *)
(* at the first token that is not what comes next; base10_parse::<u8>       *)
(* fails when the digits are no u8.                                         *)
MetaCollectArgs(args) ==
    LET ArgsErr(msg) == [ok |-> FALSE, msg |-> msg, code |-> 0, name |-> <<>>]
        IsLit(t) == t.kind \in {"int", "str", "float", "bool"}
        Fits(i) == IF i % 2 = 1 THEN IsLit(args[i]) ELSE args[i].kind = "comma"
        Bad == {i \in 1..Len(args) : ~Fits(i)}
        FirstBad == CHOOSE i \in Bad : \A j \in Bad : i <= j
        Lits == SelectSeq(args, IsLit)
        Pair(code, name) ==
            IF code.kind = "int" /\ name.kind = "str"
            THEN IF code.n \in 0..255
                 THEN [ok |-> TRUE, msg |-> "", code |-> code.n, name |-> name.s]
                 ELSE ArgsErr("base10_parse: ParseIntError")
            ELSE ArgsErr("expect #[wgse_command(<code: u8>, <name: str>)]")
    IN  IF Bad # {}
        THEN ArgsErr(IF FirstBad % 2 = 1 THEN "expected literal" ELSE "expected comma")
        ELSE IF Len(Lits) = 2 THEN Pair(Lits[1], Lits[2])
        ELSE ArgsErr("expect #[wgse_command(<code: u8>, <name: str>)]")

(* err.into_compile_error(): the tokens of a compile_error! invocation *)
CompileError == <<"::", "core", "::", "compile_error", "!">>

(* a variant that gives back the function the fragment was built from, the  *)
(* receiver in it                                                           *)
wgse_command_returning_ast(fsys, args, func, pos, debug) ==
    LET Invoked(meta_args, r) ==
            [r |-> r, parsed |-> TRUE, code |-> meta_args.code, name |-> meta_args.name,
             ret |-> IF r.outcome = "ok"
                     THEN (IF debug THEN ItemFnTokens(WithReceiver(func)) ELSE <<>>)
                     ELSE IF r.outcome = "err" THEN CompileError ELSE <<>>]
        Parsed(meta_args) ==
            IF ~meta_args.ok
            THEN [r |-> Ended("err", "syn::Error", meta_args.msg, <<>>, <<>>, fsys, NoOut),
                  parsed |-> FALSE, code |-> 0, name |-> <<>>, ret |-> CompileError]
            ELSE Invoked(meta_args,
                         wgse_command_impl(fsys, meta_args.code, meta_args.name, func, pos))
    IN  Parsed(MetaCollectArgs(args))

(* lib.rs: wgse_command.  The arguments are parsed first; the tokens given  *)
(* back are the input as it came when the build has debug assertions, and   *)
(* none when it has not; every error comes back as a compile error.         *)
wgse_command(fsys, args, func, pos, debug) ==
    LET Invoked(meta_args, r) ==
            [r |-> r, parsed |-> TRUE, code |-> meta_args.code, name |-> meta_args.name,
             ret |-> IF r.outcome = "ok"
                     THEN (IF debug THEN ItemFnTokens(func) ELSE <<>>)
                     ELSE IF r.outcome = "err" THEN CompileError ELSE <<>>]
        Parsed(meta_args) ==
            IF ~meta_args.ok
            THEN [r |-> Ended("err", "syn::Error", meta_args.msg, <<>>, <<>>, fsys, NoOut),
                  parsed |-> FALSE, code |-> 0, name |-> <<>>, ret |-> CompileError]
            ELSE Invoked(meta_args,
                         wgse_command_impl(fsys, meta_args.code, meta_args.name, func, pos))
    IN  Parsed(MetaCollectArgs(args))

(* WalkDir::new(dest_dir).into_iter().filter_map(|p| p.ok())                *)
(*     .filter(|p| p.file_type().is_file()): what the walk cannot read is   *)
(* dropped, and so is a directory that does not exist                       *)
WalkFiles(fsys, dir) ==
    LET Visible(e) == e.walk = "ok" /\ e.isFile
    IN  IF fsys[dir].exists THEN SelectSeq(fsys[dir].entries, Visible) ELSE <<>>

NoItem == [const |-> <<>>, code |-> 0, lit |-> "", tag |-> <<>>, func |-> DummyFn]

ItemFail(outcome, err) == [outcome |-> outcome, err |-> err, item |-> NoItem]

(* a variant of the loop body that takes the tag from the name as written, *)
(* without the change of case                                               *)
CommandItemAsWritten(fsys, dir, file) ==
    LET Item(name, code, func) ==
            IF ~func.ok \/ ~IdentOk(name) \/ ~IdentOk(UpperSnake(name))
            THEN ItemFail("err", "syn::Error")
            ELSE [outcome |-> "ok", err |-> "",
                  item |-> [const |-> UpperSnake(name), code |-> code, lit |-> "u64",
                            tag |-> name,
                            func |-> [func.fn EXCEPT !.ident = "execute",
                                                     !.vis = "inherited"]]]
        Fields(jname, jcode, jraw) ==
            IF jname.t # "str" \/ jcode.t # "num" THEN ItemFail("panic", "unwrap on None")
            ELSE Item(jname.s, jcode.n, ParseItemFn(jraw.s))
        Loaded(json_value) ==
            IF json_value.outcome # "ok" THEN ItemFail(json_value.outcome, json_value.err)
            ELSE Fields(JIndex(json_value.doc, KeyName), JIndex(json_value.doc, KeyCode),
                        JIndex(json_value.doc, KeyRaw))
    IN  Loaded(generate_get_json_payload(fsys, dir, file))

(* meta_generate.rs: the body of the loop of parse_command_files *)
CommandItem(fsys, dir, file) ==
    LET Item(name, code, func) ==
            IF ~func.ok \/ ~IdentOk(name) \/ ~IdentOk(UpperSnake(name))
            THEN ItemFail("err", "syn::Error")
            ELSE [outcome |-> "ok", err |-> "",
                  item |-> [const |-> UpperSnake(name), code |-> code, lit |-> "u64",
                            tag |-> name,
                            func |-> [func.fn EXCEPT !.ident = "execute",
                                                     !.vis = "inherited"]]]
        Fields(jname, jcode, jraw) ==
            IF jname.t # "str" \/ jcode.t # "num" THEN ItemFail("panic", "unwrap on None")
            ELSE Item(UpperCamel(jname.s), jcode.n, ParseItemFn(jraw.s))
        Loaded(json_value) ==
            IF json_value.outcome # "ok" THEN ItemFail(json_value.outcome, json_value.err)
            ELSE Fields(JIndex(json_value.doc, KeyName), JIndex(json_value.doc, KeyCode),
                        JIndex(json_value.doc, KeyRaw))
    IN  Loaded(generate_get_json_payload(fsys, dir, file))

(* meta_generate.rs: parse_command_files; the first entry that fails ends it *)
RECURSIVE ParseEntries(_, _, _, _, _)
ParseEntries(fsys, dir, files, k, items) ==
    LET Entry(one) ==
            IF one.outcome # "ok"
            THEN [outcome |-> one.outcome, err |-> one.err, items |-> <<>>]
            ELSE ParseEntries(fsys, dir, files, k + 1, Append(items, one.item))
    IN  IF k > Len(files) THEN [outcome |-> "ok", err |-> "", items |-> items]
        ELSE Entry(CommandItem(fsys, dir, files[k].name))

(* a variant that supplies a Nope item when the directory gave none *)
parse_command_files_defaulting(fsys, dest_dir) ==
    LET Defaulted(parsed) ==
            IF parsed.outcome = "ok"
               /\ \A i \in 1..Len(parsed.items) : parsed.items[i].tag # NopeMarker
            THEN [parsed EXCEPT !.items = Append(@, [NoItem EXCEPT !.tag = NopeMarker])]
            ELSE parsed
    IN  Defaulted(ParseEntries(fsys, dest_dir, WalkFiles(fsys, dest_dir), 1, <<>>))

parse_command_files(fsys, dest_dir) ==
    ParseEntries(fsys, dest_dir, WalkFiles(fsys, dest_dir), 1, <<>>)

(* quote!{ #target_enum } prints the whole enum item the macro was put on *)
ItemEnumTokens(e) ==
    (IF e.vis = "pub" THEN <<"pub">> ELSE <<>>) \o <<"enum", e.ident, "{", "}">>

(* a variant that removes the fragments it has read from the directory *)
wgse_command_trait_impl_consuming(fsys, trait_name, target_enum) ==
    LET Kept(e) == ~(e.walk = "ok" /\ e.isFile)
        Emit(parsed) ==
            IF parsed.outcome = "panic" THEN Panicked(fsys)
            ELSE IF parsed.outcome = "err" THEN Failed(parsed.err, fsys)
            ELSE Ok([fsys EXCEPT ![GenerateDir].entries = SelectSeq(@, Kept)],
                    [items |-> parsed.items,
                     variants |-> [i \in 1..Len(parsed.items) |-> parsed.items[i].tag],
                     enum |-> <<"pub", "enum">> \o ItemEnumTokens(target_enum),
                     dispatch |-> trait_name,
                     default |-> NopeMarker])
    IN  Emit(parse_command_files(fsys, GenerateDir))

(* meta_generate.rs: wgse_command_trait_impl *)
wgse_command_trait_impl(fsys, trait_name, target_enum) ==
    LET Emit(parsed) ==
            IF parsed.outcome = "panic" THEN Panicked(fsys)
            ELSE IF parsed.outcome = "err" THEN Failed(parsed.err, fsys)
            ELSE Ok(fsys,
                    [items |-> parsed.items,
                     variants |-> [i \in 1..Len(parsed.items) |-> parsed.items[i].tag],
                     enum |-> <<"pub", "enum">> \o ItemEnumTokens(target_enum),
                     dispatch |-> trait_name,
                     default |-> NopeMarker])
    IN  Emit(parse_command_files(fsys, GenerateDir))

-----------------------------------------------------------------------------
(* The inputs the model draws from *)

MaxParams == 1

Types == {"T", "U"}
TypeLists == SeqsUpTo(Types, MaxParams)
Styles == {"f", "g"}

(* a command function written in one of two styles: `pub fn f(a: _, b: _)`  *)
(* or `#[inline] fn g(_: _, a: _)`                                          *)
CommandFn(style, types, output, stmts) ==
    LET Param(i, ty) ==
            IF style = "f" THEN PatIdent(IF i % 2 = 1 THEN "a" ELSE "b", ty)
            ELSE IF i = 1 THEN PatWild(ty)
            ELSE PatIdent(IF i % 2 = 1 THEN "b" ELSE "a", ty)
    IN  Fn(IF style = "f" THEN <<>> ELSE <<"inline">>,
           IF style = "f" THEN "pub" ELSE "inherited",
           style,
           [i \in 1..Len(types) |-> Param(i, types[i])],
           output,
           Block(stmts))

(* the trait method `fn execute(&self, a: _, b: _) -> R;` *)
TraitFn(attrs, types, output) ==
    Fn(attrs, "inherited", "execute",
       InsertReceiver([i \in 1..Len(types) |->
                          PatIdent(IF i % 2 = 1 THEN "a" ELSE "b", types[i])]),
       output,
       NoBlock)

Echo == <<69, 99, 104, 111>>
echo == <<101, 99, 104, 111>>

(* the annotated commands: #[wgse_command(code, name)] and the body *)
Commands ==
    {[code |-> 0, name |-> NopeMarker, stmts |-> <<"0">>],
     [code |-> 1, name |-> Echo, stmts |-> <<"1">>],
     [code |-> 255, name |-> echo, stmts |-> <<"1", "0">>]}

TraitName == "WgseCommandExecute"
TargetEnum == [vis |-> "pub", ident |-> "WgseCommand"]

-----------------------------------------------------------------------------
(* The pipeline: the three macros, invoked in any order on a build root     *)
(* that holds src/.autogen and src/.autogen/wgse_command and may or may not *)
(* hold src/.autogen/wgse_commands.                                          *)

NoCall ==
    [op |-> "none", outcome |-> "none", err |-> "", msg |-> "", expect |-> <<>>,
     found |-> <<>>, code |-> 0, name |-> <<>>, func |-> DummyFn, out |-> NoOut,
     args |-> <<>>, debug |-> FALSE, ret |-> <<>>]

Call(op, r, code, name, func) ==
    [op |-> op, outcome |-> r.outcome, err |-> r.err, msg |-> r.msg,
     expect |-> r.expect, found |-> r.found, code |-> code, name |-> name,
     func |-> func, out |-> r.out, args |-> <<>>, debug |-> FALSE, ret |-> <<>>]

Positions(dir) == 1..(Len(fs[dir].entries) + 1)

(* the shape of a signature: kinds and types by position, and the return   *)
Shape(inputs) == [i \in 1..Len(inputs) |-> [kind |-> inputs[i].kind, ty |-> inputs[i].ty]]
ShapeEq(command, interface) ==
    /\ Shape(InsertReceiver(command.inputs)) = Shape(interface.inputs)
    /\ command.output = interface.output

IdleNorm == [kind |-> "none", hist |-> <<>>]

IdleStore == /\ store = {}
             /\ norm = IdleNorm

Init ==
    /\ fs \in {[d \in Dirs |-> IF d = GenerateDir THEN g ELSE Dir(<<>>)] :
                  g \in {NoDir, Dir(<<>>)}}
    /\ last = NoCall
    /\ ifaceBy = "none"
    /\ ifaceDecl = DummyFn
    /\ asked = {}
    /\ IdleStore

(* lib.rs: wgse_command_interface *)
CaptureInterfaceEnds(input, r) ==
    /\ fs' = r.fs
    /\ last' = Call("capture_interface", r, 0, <<>>, input)
    /\ ifaceBy' = IF r.outcome = "ok" THEN "capture" ELSE ifaceBy
    /\ ifaceDecl' = IF r.outcome = "ok" THEN input ELSE ifaceDecl
    /\ asked' = IF r.outcome = "ok" THEN {} ELSE asked
    /\ UNCHANGED <<store, norm>>

CaptureInterface ==
    \E types \in TypeLists, pos \in Positions(AutogenDir) :
        CaptureInterfaceEnds(TraitFn(<<>>, types, "R"),
                             wgse_command_interface_impl(fs, TraitFn(<<>>, types, "R"),
                                                         pos))

(* the argument lists written for a command: `code, "name"`, the same with  *)
(* a trailing comma, and the lists that are not a u8 then a string          *)
ArgLists(c) ==
    LET Code == ArgToken("int", c.code, <<>>)
        Name == ArgToken("str", 0, c.name)
        Comma == ArgToken("comma", 0, <<>>)
    IN  {<<Code, Comma, Name>>,
         <<Code, Comma, Name, Comma>>,
         <<>>,
         <<Code>>,
         <<Code, Comma, Name, Comma, Name>>,
         <<Name, Comma, Code>>,
         <<Code, Name>>,
         <<Comma, Code, Comma, Name>>,
         <<Code, Comma, Code>>,
         <<ArgToken("float", c.code, <<>>), Comma, Name>>,
         <<Code, Comma, ArgToken("bool", 0, <<>>)>>,
         <<ArgToken("ident", 0, c.name), Comma, Name>>,
         <<ArgToken("int", c.code + 256, <<>>), Comma, Name>>,
         <<ArgToken("int", c.code - 256, <<>>), Comma, Name>>}

(* the uses of #[wgse_command(..)] in the crate being built: every command  *)
(* in every style with its arguments written well, and one function under   *)
(* each of the argument lists and each build profile                        *)
Invocations ==
    {[c |-> c, args |-> <<ArgToken("int", c.code, <<>>), ArgToken("comma", 0, <<>>),
                          ArgToken("str", 0, c.name)>>,
      func |-> CommandFn(style, types, output, c.stmts), debug |-> TRUE] :
        c \in Commands, style \in Styles, types \in TypeLists, output \in {"R", ""}}
    \cup UNION {{[c |-> c, args |-> args,
                   func |-> CommandFn("g", <<"T">>, "R", c.stmts), debug |-> debug] :
                     args \in ArgLists(c), debug \in BOOLEAN} :
                  c \in {k \in Commands : k.name = Echo}}

(* lib.rs: wgse_command *)
CaptureCommandEnds(inv, w) ==
    /\ fs' = w.r.fs
    /\ last' = [Call("capture_command", w.r, w.code, w.name, inv.func)
                   EXCEPT !.args = inv.args, !.debug = inv.debug, !.ret = w.ret]
    /\ asked' = IF w.parsed /\ ifaceBy = "capture" /\ ShapeEq(inv.func, ifaceDecl)
                THEN asked \cup {inv.c} ELSE asked
    /\ UNCHANGED <<ifaceBy, ifaceDecl, store, norm>>

CaptureCommand ==
    \E inv \in Invocations, pos \in Positions(CollectDir) :
        CaptureCommandEnds(inv, wgse_command(fs, inv.args, inv.func, pos, inv.debug))

(* lib.rs: wgse_command_trait_impl *)
GenerateRegistryEnds(r) ==
    /\ fs' = r.fs
    /\ last' = Call("generate_registry", r, 0, <<>>, DummyFn)
    /\ UNCHANGED <<ifaceBy, ifaceDecl, asked, store, norm>>

GenerateRegistry == GenerateRegistryEnds(wgse_command_trait_impl(fs, TraitName, TargetEnum))

Next == CaptureInterface \/ CaptureCommand \/ GenerateRegistry

Spec == Init /\ [][Next]_vars

-----------------------------------------------------------------------------
(* Registry generation over the fragment directories an environment can     *)
(* leave under src/.autogen/wgse_commands: fragments as set_json_payload    *)
(* writes them, hand-damaged ones, and entries the walk skips.              *)

MaxEntries == 2

FragmentBytes(name, code, text) == JWrite(FragmentPayload(name, code, B64Encode(text)))

SourceText(style, types, output, stmts) ==
    ToText(ItemFnTokens(WithReceiver(CommandFn(style, types, output, stmts))))

(* the entries a fragment directory is made of: fragments as the store      *)
(* writes them (names Nope, NOPE, Echo, no_pe); files that fail at one step *)
(* of the loop each (not JSON, no raw, raw not base64, raw not UTF-8, no    *)
(* name, code not a number, raw not a function, name not an identifier,     *)
(* file not UTF-8); an entry the walk cannot read, a directory, and a file  *)
(* that cannot be opened                                                    *)
GenEntries ==
    LET File(stem, bytes) == FileEntry(FileName(stem), bytes)
        Text == SourceText("f", <<"T">>, "R", <<"0">>)
        Entry(stem, walk, isFile) ==
            [name |-> stem, walk |-> walk, isFile |-> isFile, perm |-> FALSE,
             bytes |-> IF isFile THEN FragmentBytes(NopeMarker, 0, Text) ELSE <<>>]
    IN  {File(<<110, 111, 112, 101>>, FragmentBytes(NopeMarker, 0, Text)),
         File(<<78, 79, 80, 69>>,
              FragmentBytes(<<78, 79, 80, 69>>, 7, SourceText("g", <<"T">>, "R", <<"1">>))),
         File(<<101, 99, 104, 111>>,
              FragmentBytes(Echo, 1, SourceText("g", <<"T">>, "R", <<"1">>))),
         File(<<110, 111, 95, 112, 101>>,
              FragmentBytes(<<110, 111, 95, 112, 101>>, 255,
                            SourceText("f", <<>>, "", <<>>))),
         File(<<49>>, <<123>>),
         File(<<50>>, JWrite(JObj(<<>>))),
         File(<<51>>, JWrite(FragmentPayload(NopeMarker, 0, <<33>>))),
         File(<<52>>, FragmentBytes(NopeMarker, 0, <<255>>)),
         File(<<53>>, JWrite(RawPayload(B64Encode(Text)))),
         File(<<54>>, JWrite(JAssign(FragmentPayload(NopeMarker, 0, B64Encode(Text)),
                                     KeyCode, JStr(<<48>>)))),
         File(<<55>>, FragmentBytes(NopeMarker, 0,
                                    ToText(TraitItemFnTokens(TraitFn(<<>>, <<"T">>, "R"))))),
         File(<<56>>, FragmentBytes(<<95>>, 0, Text)),
         File(<<57>>, <<255>>),
         Entry(<<115, 117, 98>>, "err", FALSE),
         Entry(<<100, 105, 114>>, "ok", FALSE),
         Entry(<<108, 111, 99, 107, 101, 100>>, "ok", TRUE)}

GenDirs ==
    LET Distinct(seq) == \A i, j \in 1..Len(seq) : i # j => seq[i].name # seq[j].name
    IN  {NoDir} \cup {Dir(es) : es \in {q \in SeqsUpTo(GenEntries, MaxEntries) :
                                           Distinct(q)}}

GenInit ==
    /\ fs \in {[d \in Dirs |-> IF d = GenerateDir THEN g ELSE Dir(<<>>)] : g \in GenDirs}
    /\ last = NoCall
    /\ ifaceBy = "none"
    /\ ifaceDecl = DummyFn
    /\ asked = {}
    /\ IdleStore

GenNext == GenerateRegistry

GenSpec == GenInit /\ [][GenNext]_vars

-----------------------------------------------------------------------------
(* Command capture over the build roots it can be run on.  interface.json   *)
(* is missing, or is the record capture_interface wrote for a trait method, *)
(* or is a record written by other means whose text is the one              *)
(* check_function_interface compares with.  The fragment directory is       *)
(* missing, empty, or holds the fragment of an earlier build.               *)

CollectInvocations ==
    LET Echoes == {c \in Commands : Snake(c.name) = echo}
        Funcs(c) == {CommandFn("g", <<"T">>, "R", c.stmts), CommandFn("f", <<>>, "", c.stmts)}
        Well(c) == {<<ArgToken("int", c.code, <<>>), ArgToken("comma", 0, <<>>),
                      ArgToken("str", 0, c.name)>>,
                    <<ArgToken("int", c.code, <<>>), ArgToken("comma", 0, <<>>),
                      ArgToken("str", 0, c.name), ArgToken("comma", 0, <<>>)>>}
    IN  UNION {{[c |-> c, args |-> args, func |-> func, debug |-> debug] :
                    args \in Well(c), func \in Funcs(c), debug \in BOOLEAN} :
                 c \in Echoes}
        \cup UNION {{[c |-> c, args |-> args,
                      func |-> CommandFn("g", <<"T">>, "R", c.stmts), debug |-> TRUE] :
                        args \in ArgLists(c)} :
                     c \in {k \in Commands : k.name = Echo}}

CollectRoots ==
    LET Empty == [d \in Dirs |-> Dir(<<>>)]
        Captured(types) ==
            [by |-> "capture", decl |-> TraitFn(<<>>, types, "R"),
             dir |-> wgse_command_interface_impl(Empty, TraitFn(<<>>, types, "R"),
                                                 1).fs[AutogenDir]]
        Written ==
            [by |-> "other", decl |-> DummyFn,
             dir |-> generate_set_json_payload(Empty, AutogenDir, InterfaceFile,
                                               RawPayload(func_signature(DummyFn)),
                                               1).fs[AutogenDir]]
        Interfaces == {[by |-> "none", decl |-> DummyFn, dir |-> Dir(<<>>)], Written}
                      \cup {Captured(types) : types \in TypeLists}
        Earlier == FileEntry(CommandFile(Echo),
                             FragmentBytes(Echo, 1, SourceText("f", <<"T">>, "R", <<"0">>)))
        Fragments == {NoDir, Dir(<<>>), Dir(<<Earlier>>)}
    IN  {[i |-> i, fs |-> [d \in Dirs |-> IF d = AutogenDir THEN i.dir
                                          ELSE IF d = CollectDir THEN f
                                          ELSE Dir(<<>>)]] :
            i \in Interfaces, f \in Fragments}

CollectInit ==
    /\ \E root \in CollectRoots :
           /\ fs = root.fs
           /\ ifaceBy = root.i.by
           /\ ifaceDecl = root.i.decl
    /\ last = NoCall
    /\ asked = {}
    /\ IdleStore

CollectCommand ==
    \E inv \in CollectInvocations, pos \in Positions(CollectDir) :
        CaptureCommandEnds(inv, wgse_command(fs, inv.args, inv.func, pos, inv.debug))

CollectNext == CollectCommand

CollectSpec == CollectInit /\ [][CollectNext]_vars

-----------------------------------------------------------------------------
(* The store by itself.  A fragment is put by meta_collect.rs (the path and *)
(* the document of wgse_command_impl) and got by meta_generate.rs (the loop *)
(* of parse_command_files); the interface record is put by meta_generate.rs *)
(* and got by meta_collect.rs.  The fragments are those of the commands     *)
(* that share the key of "Echo".                                            *)

MaxTextLen == 1

StoreTexts ==
    SeqsUpTo({34, 10, 123}, MaxTextLen)
    \cup {<<123, 34, 10, 125>>, SourceText("f", <<"T">>, "R", <<"0">>)}

StorePuts ==
    {[dir |-> CollectDir, key |-> CommandFile(c.name),
      doc |-> FragmentPayload(c.name, c.code, text)] :
        c \in {k \in Commands : CommandFile(k.name) = CommandFile(Echo)},
        text \in StoreTexts}
    \cup {[dir |-> AutogenDir, key |-> InterfaceFile, doc |-> RawPayload(text)] :
             text \in StoreTexts}

StoreKeys ==
    {[dir |-> p.dir, key |-> p.key] : p \in StorePuts}
    \cup {[dir |-> CollectDir, key |-> FileName(<<120>>)]}

NoStoreCall ==
    [op |-> "none", outcome |-> "none", err |-> "", dir |-> "", key |-> <<>>,
     doc |-> JNull, prev |-> JNull]

Stored(dir, key) == {p \in store : p.dir = dir /\ p.key = key}

StoreInit ==
    /\ fs = [d \in Dirs |-> Dir(<<>>)]
    /\ last = NoStoreCall
    /\ ifaceBy = "none"
    /\ ifaceDecl = DummyFn
    /\ asked = {}
    /\ IdleStore

(* put: set_json_payload on the document's path; prev is the name in the   *)
(* document the path held before                                            *)
StorePutEnds(p, r) ==
    /\ fs' = r.fs
    /\ last' = [op |-> "put", outcome |-> r.outcome, err |-> r.err, dir |-> p.dir,
                key |-> p.key, doc |-> p.doc,
                prev |-> IF Stored(p.dir, p.key) = {} THEN JNull
                         ELSE JIndex((CHOOSE q \in Stored(p.dir, p.key) : TRUE).doc,
                                     KeyName)]
    /\ store' = IF r.outcome = "ok" THEN (store \ Stored(p.dir, p.key)) \cup {p} ELSE store
    /\ UNCHANGED <<ifaceBy, ifaceDecl, asked, norm>>

StorePut ==
    \E p \in StorePuts, pos \in 1..(Len(fs[CollectDir].entries) + 1) :
        /\ pos <= Len(fs[p.dir].entries) + 1
        /\ StorePutEnds(p, IF p.dir = CollectDir
                           THEN set_json_payload(fs, p.dir, p.key, p.doc, pos)
                           ELSE generate_set_json_payload(fs, p.dir, p.key, p.doc, pos))

(* get: get_json_payload on a path *)
StoreGetEnds(k, r) ==
    /\ last' = [op |-> "get", outcome |-> r.outcome, err |-> r.err, dir |-> k.dir,
                key |-> k.key, doc |-> r.doc, prev |-> JNull]
    /\ UNCHANGED <<fs, ifaceBy, ifaceDecl, asked, store, norm>>

StoreGet ==
    \E k \in StoreKeys :
        StoreGetEnds(k, IF k.dir = CollectDir
                        THEN generate_get_json_payload(fs, k.dir, k.key)
                        ELSE get_json_payload(fs, k.dir, k.key))

StoreNext == StorePut \/ StoreGet

StoreSpec == StoreInit /\ [][StoreNext]_vars

-----------------------------------------------------------------------------
(* The normalizers by themselves, applied again and again to a declaration  *)

MaxApply == 2

NormTraitFns ==
    {TraitFn(attrs, types, output) :
        attrs \in {<<>>, <<"inline">>}, types \in TypeLists, output \in {"R", ""}}

NormCommandFns ==
    {CommandFn(style, types, output, c.stmts) :
        style \in Styles, types \in TypeLists, output \in {"R", ""}, c \in Commands}

NormInit ==
    /\ fs = [d \in Dirs |-> Dir(<<>>)]
    /\ last = NoCall
    /\ ifaceBy = "none"
    /\ ifaceDecl = DummyFn
    /\ asked = {}
    /\ store = {}
    /\ norm \in {[kind |-> "command", hist |-> <<f>>] : f \in NormCommandFns}
                \cup {[kind |-> "interface", hist |-> <<f>>] : f \in NormTraitFns}

NormalizeCommand ==
    /\ norm.kind = "command"
    /\ Len(norm.hist) <= MaxApply
    /\ norm' = [norm EXCEPT !.hist = Append(@, preprocess_function_ast(@[Len(@)]))]
    /\ UNCHANGED <<fs, last, ifaceBy, ifaceDecl, asked, store>>

NormalizeInterface ==
    /\ norm.kind = "interface"
    /\ Len(norm.hist) <= MaxApply
    /\ norm' = [norm EXCEPT !.hist = Append(@, normalize_interface(@[Len(@)]))]
    /\ UNCHANGED <<fs, last, ifaceBy, ifaceDecl, asked, store>>

NormNext == NormalizeCommand \/ NormalizeInterface

NormSpec == NormInit /\ [][NormNext]_vars

(* the canonical text of the declaration after k - 1 applications *)
CanonicalText(k) ==
    IF norm.kind = "command" THEN ToText(ItemFnTokens(norm.hist[k]))
    ELSE ToText(TraitItemFnTokens(norm.hist[k]))

-----------------------------------------------------------------------------
(* Properties of the pipeline (Spec)                                        *)

(* C1: a command whose parameter types, order and return type equal the     *)
(* captured interface's once a receiver is injected is captured: the call   *)
(* that follows capture_interface returns no error and writes the fragment, *)
(* whatever the command's function name and parameter names are.            *)
C1_MatchingCommandIsCaptured ==
    (last.op = "capture_command" /\ ifaceBy = "capture" /\ ShapeEq(last.func, ifaceDecl))
        => /\ last.outcome = "ok"
           /\ Find(fs[CollectDir].entries, CommandFile(last.name)) # 0

(* C2: after capture_interface and then capture_command for matching        *)
(* commands that include Nope, generate_registry reads the fragments those  *)
(* calls wrote: one variant per captured command, and the default is the    *)
(* Nope variant whose implementation is the captured Nope body.             *)
C2_RegistryReadsCapturedFragments ==
    (last.op = "generate_registry" /\ ifaceBy = "capture"
     /\ \E c \in asked : c.name = NopeMarker)
        => /\ last.outcome = "ok"
           /\ ToSet(last.out.variants) = {UpperCamel(c.name) : c \in asked}
           /\ last.out.default = NopeMarker
           /\ \E i \in 1..Len(last.out.items), c \in asked :
                  /\ c.name = NopeMarker
                  /\ last.out.items[i].tag = NopeMarker
                  /\ last.out.items[i].func.block.stmts = c.stmts

(* C3: a command whose shape differs from the captured interface's in       *)
(* arity, order, or a parameter or return type fails with the mismatch      *)
(* error, and the error reports both canonical forms: the interface's text  *)
(* and a text of the normalized command.                                    *)
C3_MismatchReportsBothForms ==
    (last.op = "capture_command" /\ ifaceBy = "capture" /\ ~ShapeEq(last.func, ifaceDecl))
        => /\ last.outcome = "err"
           /\ last.err = "InvalidInterfaceError"
           /\ last.msg = "inconsistent interface signature"
           /\ last.expect = ToText(TraitItemFnTokens(normalize_interface(ifaceDecl)))
           /\ last.found \in {ToText(SigTokens(preprocess_function_ast(last.func))),
                              ToText(ItemFnTokens(preprocess_function_ast(last.func))),
                              ToText(TraitItemFnTokens(preprocess_function_ast(last.func)))}

(* C4: capture_command in a state where src/.autogen/interface.json does    *)
(* not exist fails with the error that tells the caller to run the          *)
(* interface capture first, not with an I/O error and not with a panic.     *)
C4_MissingInterfaceIsReported ==
    (last.op = "capture_command" /\ Find(fs[AutogenDir].entries, InterfaceFile) = 0)
        => /\ last.outcome = "err"
           /\ last.err = "InvalidInterfaceError"
           /\ last.msg = "no interface signature found"

-----------------------------------------------------------------------------
(* Properties of the normalizers (NormSpec)                                 *)

(* C5, as stated: normalizing twice gives the same canonical text as        *)
(* normalizing once, for the command normalizer and for the interface       *)
(* normalizer.                                                              *)
C5_TwiceIsOnce == Len(norm.hist) >= 3 => CanonicalText(3) = CanonicalText(2)

(* C5, amended: the interface normalizer is idempotent; every further       *)
(* application of the command normalizer puts one more receiver in front    *)
(* and changes nothing else, so its canonical text changes every time.      *)
C5_OnlyInterfaceIsIdempotent ==
    \A k \in 2..(Len(norm.hist) - 1) :
        IF norm.kind = "interface" THEN CanonicalText(k + 1) = CanonicalText(k)
        ELSE /\ norm.hist[k + 1] = WithReceiver(norm.hist[k])
             /\ CanonicalText(k + 1) # CanonicalText(k)

C5_CommandNormalizedTwice ==
    /\ norm.kind = "command"
    /\ Len(norm.hist) = 3
    /\ Len(norm.hist[1].inputs) = 1
    /\ Len(norm.hist[3].inputs) = 3

-----------------------------------------------------------------------------
(* Properties of registry generation (GenSpec)                              *)

(* the marker the name in a fragment file maps to *)
FragmentTag(e) == UpperCamel(JIndex(JParse(e.bytes).v, KeyName).s)

(* C6: when at least one entry of the fragment directory cannot be read,    *)
(* decoded or parsed, generate_registry fails and emits nothing; it never   *)
(* gives a registry built from the other entries.                           *)
C6_AllOrNothing ==
    (last.op = "generate_registry"
     /\ \E i \in 1..Len(fs[GenerateDir].entries) :
            \/ fs[GenerateDir].entries[i].walk # "ok"
            \/ /\ fs[GenerateDir].entries[i].isFile
               /\ CommandItem(fs, GenerateDir,
                              fs[GenerateDir].entries[i].name).outcome # "ok")
        => /\ last.outcome # "ok"
           /\ last.out = NoOut

(* C7: when every fragment file decodes and none maps to the marker Nope,   *)
(* generate_registry succeeds with no Nope item and no Nope variant, and    *)
(* the default it writes still names Nope.                                  *)
C7_NoNopeIsFabricated ==
    (last.op = "generate_registry"
     /\ \A i \in 1..Len(WalkFiles(fs, GenerateDir)) :
            /\ CommandItem(fs, GenerateDir,
                           WalkFiles(fs, GenerateDir)[i].name).outcome = "ok"
            /\ FragmentTag(WalkFiles(fs, GenerateDir)[i]) # NopeMarker)
        => /\ last.outcome = "ok"
           /\ \A i \in 1..Len(last.out.items) : last.out.items[i].tag # NopeMarker
           /\ \A i \in 1..Len(last.out.variants) : last.out.variants[i] # NopeMarker
           /\ last.out.default = NopeMarker

C7_RegistryWithoutNope ==
    /\ last.op = "generate_registry"
    /\ last.outcome = "ok"
    /\ Len(last.out.variants) >= 1
    /\ \A i \in 1..Len(last.out.variants) : last.out.variants[i] # NopeMarker
    /\ last.out.default = NopeMarker

(* C8: when every fragment file decodes, the variants are one per fragment  *)
(* file, in the order of the walk, each the upper camel case of the file's  *)
(* name field, and nothing else; a directory holding only a Nope fragment   *)
(* gives exactly one variant, which is the default.                         *)
C8_OneVariantPerFragment ==
    (last.op = "generate_registry"
     /\ \A i \in 1..Len(WalkFiles(fs, GenerateDir)) :
            CommandItem(fs, GenerateDir, WalkFiles(fs, GenerateDir)[i].name).outcome = "ok")
        => /\ last.outcome = "ok"
           /\ last.out.variants = [i \in 1..Len(WalkFiles(fs, GenerateDir)) |->
                                      FragmentTag(WalkFiles(fs, GenerateDir)[i])]
           /\ (Len(WalkFiles(fs, GenerateDir)) = 1
               /\ FragmentTag(WalkFiles(fs, GenerateDir)[1]) = NopeMarker)
                  => last.out.variants = <<last.out.default>>

C8_TwoFragmentsTwoVariants ==
    /\ last.op = "generate_registry"
    /\ last.outcome = "ok"
    /\ Len(WalkFiles(fs, GenerateDir)) = 2
    /\ Len(last.out.variants) = 2
    /\ last.out.variants[1] # last.out.variants[2]

-----------------------------------------------------------------------------
(* Properties of the store (StoreSpec)                                      *)

(* C9: last write wins.  A put raises no error, and after it the directory  *)
(* holds exactly one file under the key, whose document is the one just put *)
(* in name, code and source text and nothing else, also when the key held   *)
(* a fragment of another name ("Echo", then "echo") before.                 *)
C9_LastWriteWins ==
    last.op = "put"
        => /\ last.outcome = "ok"
           /\ Cardinality({i \in 1..Len(fs[last.dir].entries) :
                              fs[last.dir].entries[i].name = last.key}) = 1
           /\ generate_get_json_payload(fs, last.dir, last.key) = Got(last.doc)
           /\ get_json_payload(fs, last.dir, last.key) = Got(last.doc)

C9_EchoThenLowerEcho ==
    /\ last.op = "put"
    /\ last.outcome = "ok"
    /\ last.prev = JStr(Echo)
    /\ JIndex(last.doc, KeyName) = JStr(echo)

(* C10: round trip.  A get on a key that was put returns the document that  *)
(* was last put there: the decoded raw text is the original text, braces,   *)
(* quotes and newlines included, and name and code are unchanged.           *)
C10_RoundTrip ==
    (last.op = "get" /\ Stored(last.dir, last.key) # {})
        => /\ last.outcome = "ok"
           /\ \A p \in Stored(last.dir, last.key) : last.doc = p.doc

C10_BracesQuotesNewlines ==
    /\ last.op = "get"
    /\ last.outcome = "ok"
    /\ \E p \in Stored(last.dir, last.key) :
           /\ JIndex(p.doc, KeyRaw) = JStr(<<123, 34, 10, 125>>)
           /\ JIndex(p.doc, KeyName) = JStr(echo)
    /\ JIndex(last.doc, KeyRaw) = JStr(<<123, 34, 10, 125>>)
-----------------------------------------------------------------------------
(* The two derive macros of deref.rs.  A derive input is a struct, an enum  *)
(* or a union; of an enum the fields kept here are those of its variant.    *)
(* A field of a tuple struct has no name (ident = "").                      *)

MaxFields == 2

DeriveInput(ident, generics, kind, fields) ==
    [ident |-> ident, generics |-> generics, kind |-> kind, fields |-> fields]

DeriveInputs ==
    LET Named == {[ident |-> n, ty |-> t] : n \in {"value", "other"}, t \in {"i32", "T"}}
        Unnamed == {[ident |-> "", ty |-> t] : t \in {"i32", "T"}}
        DistinctNames(q) == \A i, j \in 1..Len(q) : q[i].ident = q[j].ident => i = j
        FieldLists == {q \in SeqsUpTo(Named, MaxFields) : DistinctNames(q)}
                      \cup SeqsUpTo(Unnamed, MaxFields)
    IN  {DeriveInput("MyInteger", generics, kind, fields) :
            generics \in {<<>>, <<"T">>}, kind \in {"struct", "enum", "union"},
            fields \in FieldLists}

(* a variant that takes the first field of a struct that has several *)
deref_member_first(ast) ==
    LET DerefErr(msg) == [ok |-> FALSE, msg |-> msg, member |-> "", ty |-> ""]
        Target(field) ==
            [ok |-> TRUE, msg |-> "",
             member |-> IF field.ident # "" THEN field.ident ELSE "0",
             ty |-> field.ty]
    IN  IF ast.kind = "struct"
        THEN IF ast.fields = <<>>
             THEN DerefErr("cannot apply derive_deref on empty struct.")
             ELSE Target(ast.fields[1])
        ELSE DerefErr("derive_deref can only be applied on struct.")

(* deref.rs: deref_member.  Member::Named(ident) prints as the identifier,  *)
(* Member::Unnamed(Index::from(0)) as 0.                                    *)
deref_member(ast) ==
    LET DerefErr(msg) == [ok |-> FALSE, msg |-> msg, member |-> "", ty |-> ""]
        Target(field) ==
            [ok |-> TRUE, msg |-> "",
             member |-> IF field.ident # "" THEN field.ident ELSE "0",
             ty |-> field.ty]
    IN  IF ast.kind = "struct"
        THEN IF Len(ast.fields) > 1
             THEN DerefErr("cannot apply derive_deref on struct with multi fields.")
             ELSE IF ast.fields = <<>>
             THEN DerefErr("cannot apply derive_deref on empty struct.")
             ELSE Target(ast.fields[1])
        ELSE DerefErr("derive_deref can only be applied on struct.")

(* deref.rs: derive_deref_impl.  What it gives back is the impl item: the   *)
(* trait, the type it is for with its generics, the associated Target (of   *)
(* Deref only) and the expression the method returns.                       *)
derive_deref_impl(input, is_mut) ==
    LET Impl(target) ==
            IF ~target.ok
            THEN [outcome |-> "err", msg |-> target.msg, trait |-> "", for |-> "",
                  generics |-> <<>>, target |-> "", method |-> "", returns |-> CompileError]
            ELSE IF is_mut
            THEN [outcome |-> "ok", msg |-> "", trait |-> "::std::ops::DerefMut",
                  for |-> input.ident, generics |-> input.generics, target |-> "",
                  method |-> "deref_mut",
                  returns |-> <<"&", "mut", "self", ".", target.member>>]
            ELSE [outcome |-> "ok", msg |-> "", trait |-> "::std::ops::Deref",
                  for |-> input.ident, generics |-> input.generics, target |-> target.ty,
                  method |-> "deref",
                  returns |-> <<"&", "self", ".", target.member>>]
    IN  Impl(deref_member(input))

DerefInit ==
    /\ fs = [d \in Dirs |-> Dir(<<>>)]
    /\ last = [op |-> "none", input |-> DeriveInput("", <<>>, "struct", <<>>),
               out |-> derive_deref_impl(DeriveInput("", <<>>, "struct", <<>>), FALSE)]
    /\ ifaceBy = "none"
    /\ ifaceDecl = DummyFn
    /\ asked = {}
    /\ IdleStore

(* lib.rs: #[proc_macro_derive(Deref)] *)
derive_deref ==
    \E input \in DeriveInputs :
        /\ last' = [op |-> "derive_deref", input |-> input,
                    out |-> derive_deref_impl(input, FALSE)]
        /\ UNCHANGED <<fs, ifaceBy, ifaceDecl, asked, store, norm>>

(* lib.rs: #[proc_macro_derive(DerefMut)] *)
derive_deref_mut ==
    \E input \in DeriveInputs :
        /\ last' = [op |-> "derive_deref_mut", input |-> input,
                    out |-> derive_deref_impl(input, TRUE)]
        /\ UNCHANGED <<fs, ifaceBy, ifaceDecl, asked, store, norm>>

DerefNext == derive_deref \/ derive_deref_mut

DerefSpec == DerefInit /\ [][DerefNext]_vars

-----------------------------------------------------------------------------
(* C11: the Interface Capture Record is immutable once captured: once       *)
(* interface.json holds a record, no later capture_interface,               *)
(* capture_command or generate_registry changes its content.                *)
C11_InterfaceRecordIsImmutable ==
    [][Find(fs[AutogenDir].entries, InterfaceFile) # 0
          => /\ Find(fs'[AutogenDir].entries, InterfaceFile) # 0
             /\ ReadToString(fs', AutogenDir, InterfaceFile)
                    = ReadToString(fs, AutogenDir, InterfaceFile)]_vars

(* C12: phase-order violations are detected: generate_registry run on a     *)
(* fragment directory that is missing or holds no fragment ends in an       *)
(* error, never in success with an empty dispatch type.                     *)
C12_EmptyDirectoryIsAnError ==
    (last.op = "generate_registry" /\ WalkFiles(fs, GenerateDir) = <<>>)
        => last.outcome = "err"

(* C13: the command annotation is accepted only when its arguments are two  *)
(* literals, an integer in 0..255 then a string; every other argument list  *)
(* ends in the arguments' error at the call site, with no interface check   *)
(* made and nothing written.                                                *)
C13_OnlyCodeThenNameIsAccepted ==
    [][last'.op = "capture_command"
          => LET a == last'.args
                 core == IF Len(a) = 4 /\ a[4].kind = "comma" THEN SubSeq(a, 1, 3) ELSE a
                 well == /\ Len(core) = 3
                         /\ core[1].kind = "int" /\ core[1].n \in 0..255
                         /\ core[2].kind = "comma"
                         /\ core[3].kind = "str"
             IN  IF well
                 THEN /\ last'.err # "syn::Error"
                      /\ last'.code = core[1].n
                      /\ last'.name = core[3].s
                 ELSE /\ last'.outcome = "err"
                      /\ last'.err = "syn::Error"
                      /\ last'.msg \in {"expect #[wgse_command(<code: u8>, <name: str>)]",
                                        "expected literal", "expected comma",
                                        "base10_parse: ParseIntError"}
                      /\ last'.ret = CompileError
                      /\ fs' = fs]_vars

(* an integer above 255 was refused on a build root where the same command  *)
(* with its code in range would have been captured                          *)
C13_CodeAbove255Refused ==
    /\ last.op = "capture_command"
    /\ Len(last.args) = 3
    /\ last.args[1].kind = "int" /\ last.args[1].n > 255
    /\ last.args[3].kind = "str"
    /\ last.err = "syn::Error"
    /\ ifaceBy = "other"

(* C14: the Deref/DerefMut generator succeeds exactly for a struct with one *)
(* field, named or unnamed, and the impl it gives delegates to that field;  *)
(* for a struct with no field or with several, and for an enum or a union,  *)
(* it gives a compile error.                                                *)
C14_DerefOnlyForSingleFieldStruct ==
    last.op \in {"derive_deref", "derive_deref_mut"}
        => IF last.input.kind = "struct" /\ Len(last.input.fields) = 1
           THEN LET field == last.input.fields[1]
                    member == IF field.ident = "" THEN "0" ELSE field.ident
                IN  /\ last.out.outcome = "ok"
                    /\ last.out.for = last.input.ident
                    /\ IF last.op = "derive_deref"
                       THEN /\ last.out.trait = "::std::ops::Deref"
                            /\ last.out.target = field.ty
                            /\ last.out.returns = <<"&", "self", ".", member>>
                       ELSE /\ last.out.trait = "::std::ops::DerefMut"
                            /\ last.out.returns = <<"&", "mut", "self", ".", member>>
           ELSE /\ last.out.outcome = "err"
                /\ last.out.returns = CompileError
                /\ last.out.trait = ""

(* DerefMut was derived for a tuple struct of one field *)
C14_DerefMutOfTupleStruct ==
    /\ last.op = "derive_deref_mut"
    /\ last.input.kind = "struct"
    /\ Len(last.input.fields) = 1
    /\ last.input.fields[1].ident = ""
    /\ last.out.outcome = "ok"

(* C15: a capture_command that fails because the interface record is        *)
(* missing or the signature does not match leaves every file of the store,  *)
(* fragments and interface record, as it was.                               *)
C15_FailedCaptureChangesNothing ==
    [][(/\ last'.op = "capture_command"
        /\ last'.outcome = "err"
        /\ \/ Find(fs[AutogenDir].entries, InterfaceFile) = 0
           \/ last'.msg = "inconsistent interface signature")
          => fs' = fs]_vars

(* a command was refused for its signature while a fragment of an earlier   *)
(* build lay under its key                                                  *)
C15_RefusedOverEarlierFragment ==
    /\ last.op = "capture_command"
    /\ last.outcome = "err"
    /\ last.msg = "inconsistent interface signature"
    /\ Find(fs[CollectDir].entries, CommandFile(last.name)) # 0

(* C16: generate_registry is read-only on persisted state: whether it       *)
(* succeeds or fails, the interface record and every fragment, the set of   *)
(* files and their contents, are after the call what they were before.      *)
C16_GenerationWritesNothing ==
    [][last'.op = "generate_registry" => fs' = fs]_vars

(* a registry of two variants was generated from two fragments *)
C16_GeneratedFromTwoFragments ==
    /\ last.op = "generate_registry"
    /\ last.outcome = "ok"
    /\ Len(last.out.variants) = 2
    /\ Len(WalkFiles(fs, GenerateDir)) = 2

(* C17: the fragment a successful capture_command persists carries the      *)
(* annotation's name and code and, as source text, the function as written  *)
(* (name, parameter names, attributes, body) with one receiver put in       *)
(* front; it is not the erased clone made for the comparison.               *)
C17_FragmentIsOriginalWithReceiver ==
    (last.op = "capture_command" /\ last.outcome = "ok")
        => LET got == generate_get_json_payload(fs, CollectDir,
                                                FileName(Snake(last.args[3].s)))
               raw == JIndex(got.doc, KeyRaw)
           IN  /\ got.outcome = "ok"
               /\ JIndex(got.doc, KeyName) = JStr(last.args[3].s)
               /\ JIndex(got.doc, KeyCode) = JNum(last.args[1].n)
               /\ raw.t = "str"
               /\ ParseItemFn(raw.s)
                      = [ok |-> TRUE,
                         fn |-> [last.func EXCEPT !.inputs = <<Receiver>> \o @]]
               /\ raw.s # ToText(ItemFnTokens(preprocess_function_ast(last.func)))

(* an attributed function with an unnamed parameter was captured *)
C17_AttributedFunctionCaptured ==
    /\ last.op = "capture_command"
    /\ last.outcome = "ok"
    /\ last.func.attrs # <<>>
    /\ last.func.inputs # <<>>
    /\ Find(fs[CollectDir].entries, CommandFile(last.name)) # 0

(* C18 as stated: every successful capture_command gives back the           *)
(* declaration it was given, unmodified and never empty.                    *)
C18_ReturnsTheDeclaration ==
    (last.op = "capture_command" /\ last.outcome = "ok")
        => /\ last.ret = ItemFnTokens(last.func)
           /\ last.ret # <<>>

(* C18 amended: in a build with debug assertions a successful               *)
(* capture_command gives back the declaration it was given, without the     *)
(* receiver; in a build without them it gives back no tokens at all.        *)
C18_ReturnsTheDeclarationInDebug ==
    (last.op = "capture_command" /\ last.outcome = "ok")
        => IF last.debug
           THEN LET back == ParseItemFn(ToText(last.ret))
                IN  /\ back.ok
                    /\ back.fn = last.func
                    /\ \A i \in 1..Len(back.fn.inputs) :
                           back.fn.inputs[i].kind # "receiver"
           ELSE last.ret = <<>>

(* a command was captured in a build with debug assertions *)
C18_CapturedInDebugBuild ==
    /\ last.op = "capture_command"
    /\ last.outcome = "ok"
    /\ last.debug
    /\ last.ret # <<>>

====
